---- MODULE Spec2Model ----
(***************************************************************************)
(* Model of src/model/t5.py: the UserEmbeds module and the T5FineTuned     *)
(* model (mode switching, tokenize, prepare_input, personalization         *)
(* injection, train_step and valid_step).                                  *)
(*                                                                         *)
(* Tensors are sequences (1-based), Python dicts are records, floats are   *)
(* integers in fixed point.  The pretrained transformer (shared, forward,  *)
(* generate), the tokenizer and the Task templates are collaborators: the  *)
(* transformer is modelled as uninterpreted terms over its arguments.      *)
(***************************************************************************)
EXTENDS Integers, Sequences, FiniteSets, TLC

VARIABLES
    training,               \* T5FineTuned.training (nn.Module flag)
    ue_training,            \* T5FineTuned.user_embeddings.training
    task_training,          \* mode of the Task layer (Task.train() / Task.eval())
    eval_task,              \* T5FineTuned.eval_task
    inject_personalization, \* ExperimentConfig.inject_personalization
    emb_weight,             \* user_embeddings.emb_layer.weight
    twin_weight,            \* the same model with perturbed UserEmbeds parameters
    batch,                  \* the dict handed from prepare_input to the step functions
    ret,                    \* outcome of the last call
    twin                    \* outcome of the same call on the perturbed twin

vars == <<training, ue_training, task_training, eval_task, inject_personalization,
          emb_weight, twin_weight, batch, ret, twin>>

----------------------------------------------------------------------------
(* Bounds *)

n_users == 2            \* rows of the user embedding table
d_model == 2            \* config.d_model
ModelMaxLength == 4     \* tokenizer.model_max_length (truncation=True)
MaxBatch == 2           \* samples per batch

(* Program constants *)

pad_token_id == 0           \* self.tokenizer.pad_token_id (T5: "<pad>")
eos_token_id == 1           \* "</s>", appended by the tokenizer as a special token
ignore_index == -100        \* the value written over pad positions of the labels
num_return_sequences == 10
dropout_p == 60             \* p = 0.6, in percent
negative_slope_inv == 100   \* leaky_relu's default slope 0.01 = 1/100

None == "None"
NoneWord == -1              \* word_ids entry of a special token (Python None)

Min(a, b) == IF a < b THEN a ELSE b

----------------------------------------------------------------------------
(* The tokenizer: a text is a sequence of words, a word the sequence of the
   ids of its sub-word pieces.  The literal "<pad>" in a text is one word
   whose single piece is pad_token_id. *)

RECURSIVE Pieces(_, _)
Pieces(text, w) ==
    IF text = <<>> THEN <<>>
    ELSE [i \in 1..Len(Head(text)) |-> [id |-> Head(text)[i], word |-> w]]
         \o Pieces(Tail(text), w + 1)

\* self.tokenizer(text=..., truncation=True) on one text: the pieces, cut to
\* leave room for the closing special token, then "</s>".
TokenizerCall(text) ==
    LET all == Pieces(text, 0)
        kept == SubSeq(all, 1, Min(Len(all), ModelMaxLength - 1))
        n == Len(kept) + 1
    IN [input_ids |-> [i \in 1..n |-> IF i < n THEN kept[i].id ELSE eos_token_id],
        attention_mask |-> [i \in 1..n |-> 1],
        word_ids |-> [i \in 1..n |-> IF i < n THEN kept[i].word ELSE NoneWord],
        special_tokens_mask |-> [i \in 1..n |-> i = n]]

----------------------------------------------------------------------------
(* re.search(r"\d+", user_id).group(): the first maximal run of digits *)

DigitChars == <<"0", "1", "2", "3", "4", "5", "6", "7", "8", "9">>
IsDigit(c) == \E i \in 1..10 : DigitChars[i] = c
DigitVal(c) == (CHOOSE i \in 1..10 : DigitChars[i] = c) - 1

HasDigits(s) == \E i \in 1..Len(s) : IsDigit(s[i])
RunStart(s) == CHOOSE i \in 1..Len(s) :
                   IsDigit(s[i]) /\ \A j \in 1..(i - 1) : ~IsDigit(s[j])
RunEnd(s) == CHOOSE j \in RunStart(s)..Len(s) :
                 /\ \A k \in RunStart(s)..j : IsDigit(s[k])
                 /\ (j = Len(s) \/ ~IsDigit(s[j + 1]))

RECURSIVE IntOf(_)
IntOf(digits) ==
    IF digits = <<>> THEN 0
    ELSE 10 * IntOf(SubSeq(digits, 1, Len(digits) - 1)) + DigitVal(digits[Len(digits)])

ParseUserIdx(user_id) == IntOf(SubSeq(user_id, RunStart(user_id), RunEnd(user_id)))

----------------------------------------------------------------------------
(* Samples and tasks *)

Items == {"a", "b", "p", "l"}

ItemText(item) ==
    CASE item = "a" -> << <<5>> >>
      [] item = "b" -> << <<6, 7>> >>
      [] item = "p" -> << <<6>>, <<pad_token_id>> >>
      [] item = "l" -> << <<5>>, <<6>>, <<7, 5>>, <<6>> >>

UserIdOf(k) == <<"u", "_", DigitChars[k + 1]>>

UserIds == {UserIdOf(k) : k \in 0..(n_users + 1)}
               \cup {<<"1", "x", "2">>, <<"u", "1", "0">>, <<"u">>}

\* a sample as datasets.map(batched=True) passes it: every field is a list
SampleRows == [user_id : UserIds, target_item : Items, history : {"a", "p", "l"}]
SampleOf(rows) == [user_id |-> [i \in 1..Len(rows) |-> rows[i].user_id],
                   target_item |-> [i \in 1..Len(rows) |-> rows[i].target_item],
                   history |-> [i \in 1..Len(rows) |-> rows[i].history]]
Samples == {SampleOf(<<r>>) : r \in SampleRows}
               \cup {SampleOf(<<>>)}
               \cup {SampleOf(<<r, r>>) : r \in {x \in SampleRows : x.target_item = "a"}}

training_tasks == <<"t1", "t2">>
EvalTasks == {"e1", "e2"}

\* task(**sample): an ordered list of (input_text, target_text) pairs
TaskCall(task, s) ==
    LET target == ItemText(s.target_item)
        hist == ItemText(s.history)
    IN CASE task = "t1" -> << <<(<< <<7>> >> \o hist), target>> >>
         [] task = "t2" -> << <<(<< <<7>> >> \o hist), target>>,
                              <<(hist \o << <<5, 6>> >>), target>> >>
         [] task = "e1" -> << <<(<< <<6>> >> \o hist), target>> >>
         [] task = "e2" -> << <<hist, target>>, <<(<< <<7>> >> \o hist), target>> >>

----------------------------------------------------------------------------
(* Construction and mode switching *)

\* nn.Embedding(n_users, d_model) after xavier_uniform_: some table of non-zero
\* weights, rows 0..n_users-1, in fixed point (multiples of 200)
EmbTable(s) ==
    [r \in 0..(n_users - 1) |->
        [d \in 1..d_model |-> 200 * s * (r + d) * (IF (r + d) % 2 = 0 THEN 1 ELSE -1)]]
EmbTables == {EmbTable(1), EmbTable(2)}

Ret(op, error, out) == [op |-> op, error |-> error, out |-> out]

Init ==
    /\ training = TRUE
    /\ ue_training = TRUE
    /\ task_training \in BOOLEAN
    /\ eval_task \in EvalTasks \cup {None}
    /\ inject_personalization \in SUBSET {"train", "eval"}
    /\ emb_weight \in EmbTables
    /\ twin_weight \in EmbTables
    /\ batch = <<>>
    /\ ret = Ret("init", "none", None)
    /\ twin = Ret("init", "none", None)

\* nn.Module.train(mode): the flag of the module and of every child
ModuleTrain(mode) ==
    /\ training' = mode
    /\ ue_training' = mode

\* train that switches the Task layer to train mode whatever the argument
train_task_always(mode) ==
    /\ task_training' = TRUE
    /\ ModuleTrain(mode)
    /\ ret' = Ret("train", "none", mode)
    /\ twin' = ret'
    /\ UNCHANGED <<eval_task, inject_personalization, emb_weight, twin_weight, batch>>

train(mode) ==
    /\ task_training' = (IF mode = TRUE THEN TRUE ELSE FALSE)
    /\ ModuleTrain(mode)
    /\ ret' = Ret("train", "none", mode)
    /\ twin' = ret'
    /\ UNCHANGED <<eval_task, inject_personalization, emb_weight, twin_weight, batch>>

\* nn.Module.eval() is self.train(False), which dispatches to train above
eval ==
    /\ task_training' = FALSE
    /\ ModuleTrain(FALSE)
    /\ ret' = Ret("eval", "none", FALSE)
    /\ twin' = ret'
    /\ UNCHANGED <<eval_task, inject_personalization, emb_weight, twin_weight, batch>>

set_eval_task(task) ==
    /\ eval_task' = task
    /\ ret' = Ret("set_eval_task", "none", task)
    /\ twin' = ret'
    /\ UNCHANGED <<training, ue_training, task_training, inject_personalization,
                   emb_weight, twin_weight, batch>>

----------------------------------------------------------------------------
(* tokenize *)

\* the encoding without the shift of the word indices
EncodePair_unshifted(pair, s) ==
    LET enc == TokenizerCall(pair[1])
        target == TokenizerCall(pair[2])
    IN [input_ids |-> enc.input_ids,
        attention_mask |-> enc.attention_mask,
        labels |-> target.input_ids,
        user_idx |-> ParseUserIdx(s.user_id),
        whole_word_ids |-> [i \in 1..Len(enc.word_ids) |->
                               IF enc.special_tokens_mask[i] THEN pad_token_id
                               ELSE enc.word_ids[i]],
        target_item |-> s.target_item]

\* lines 106-118: one (input_text, target_text) pair to one encoded sequence
EncodePair(pair, s) ==
    LET enc == TokenizerCall(pair[1])
        target == TokenizerCall(pair[2])
        word_ids == enc.word_ids
        special_token_mask == enc.special_tokens_mask
        shifted == [i \in 1..Len(word_ids) |->
                       IF ~special_token_mask[i] THEN word_ids[i] + 1 ELSE word_ids[i]]
        whole_word_ids == [i \in 1..Len(shifted) |->
                              IF special_token_mask[i] THEN pad_token_id ELSE shifted[i]]
    IN [input_ids |-> enc.input_ids,
        attention_mask |-> enc.attention_mask,
        labels |-> target.input_ids,
        user_idx |-> ParseUserIdx(s.user_id),
        whole_word_ids |-> whole_word_ids,
        target_item |-> s.target_item]

\* merge_with(list, *encoded_sequence_list)
MergeWithList(encs) ==
    IF encs = <<>> THEN <<>>
    ELSE [k \in DOMAIN encs[1] |-> [i \in 1..Len(encs) |-> encs[i][k]]]

TokenizeRet(error, task, encodings, out) ==
    [op |-> "tokenize", error |-> error, task |-> task, encodings |-> encodings, out |-> out]

\* the outcome of tokenize(sample) when `choice` is what random.choice returns
tokenize_result(sample, choice) ==
    IF Len(sample.user_id) # 1
    THEN TokenizeRet("AssertionError", None, <<>>, None)
    ELSE
    LET s == [k \in DOMAIN sample |-> sample[k][1]]
        task == IF training THEN choice ELSE eval_task
    IN  IF task = None
        THEN TokenizeRet("TypeError", task, <<>>, None)
        ELSE
        LET templates_list == TaskCall(task, s)
            encodings == [i \in 1..Len(templates_list) |->
                             TokenizerCall(templates_list[i][1])]
        IN  IF ~HasDigits(s.user_id)
            THEN TokenizeRet("AttributeError", task, encodings, None)
            ELSE TokenizeRet("none", task, encodings,
                     MergeWithList([i \in 1..Len(templates_list) |->
                                       EncodePair(templates_list[i], s)]))

tokenize(sample) ==
    /\ \E c \in 1..Len(training_tasks) :
           ret' = tokenize_result(sample, training_tasks[c])
    /\ twin' = ret'
    /\ UNCHANGED <<training, ue_training, task_training, eval_task,
                   inject_personalization, emb_weight, twin_weight, batch>>

NextTok ==
    \/ \E mode \in BOOLEAN : train(mode)
    \/ eval
    \/ \E task \in EvalTasks \cup {None} : set_eval_task(task)
    \/ \E sample \in Samples : tokenize(sample)

\* tokenize reads neither the personalization flag nor the embedding tables
InitTok ==
    /\ Init
    /\ inject_personalization = {}
    /\ emb_weight = EmbTable(1)
    /\ twin_weight = EmbTable(1)

SpecTok == InitTok /\ [][NextTok]_vars

----------------------------------------------------------------------------
(* prepare_input *)

MaxLen(seqs) ==
    IF seqs = <<>> THEN 0
    ELSE CHOOSE m \in {Len(seqs[b]) : b \in 1..Len(seqs)} :
             \A b \in 1..Len(seqs) : Len(seqs[b]) <= m

\* a padding that fills on the left
pad_sequence_left(seqs, v) ==
    [b \in 1..Len(seqs) |->
        [i \in 1..MaxLen(seqs) |->
            IF i > MaxLen(seqs) - Len(seqs[b])
            THEN seqs[b][i - (MaxLen(seqs) - Len(seqs[b]))] ELSE v]]

\* torch pad_sequence(seqs, batch_first=True, padding_value=v)
pad_sequence(seqs, v) ==
    [b \in 1..Len(seqs) |->
        [i \in 1..MaxLen(seqs) |-> IF i <= Len(seqs[b]) THEN seqs[b][i] ELSE v]]

\* the labels left as padded
MaskPad_skipped(lm_labels) == lm_labels

\* lm_labels[lm_labels == pad_token_id] = -100
MaskPad(lm_labels) ==
    [b \in 1..Len(lm_labels) |->
        [i \in 1..Len(lm_labels[b]) |->
            IF lm_labels[b][i] = pad_token_id THEN ignore_index ELSE lm_labels[b][i]]]

prepare_input_dict(b) ==
    LET keys == {"user_idx", "input_ids", "attention_mask", "whole_word_ids"}
                    \cup (IF "labels" \in DOMAIN b THEN {"labels"} ELSE {})
                    \cup (IF ~training THEN {"target_item"} ELSE {})
    IN [k \in keys |->
           CASE k = "user_idx" -> b.user_idx
             [] k = "input_ids" -> pad_sequence(b.input_ids, pad_token_id)
             [] k = "attention_mask" -> pad_sequence(b.attention_mask, pad_token_id)
             [] k = "whole_word_ids" -> pad_sequence(b.whole_word_ids, pad_token_id)
             [] k = "labels" -> MaskPad(pad_sequence(b.labels, pad_token_id))
             [] k = "target_item" -> b.target_item]

prepare_input(b) ==
    /\ batch' = prepare_input_dict(b)
    /\ ret' = [op |-> "prepare_input", error |-> "none", arg |-> b, out |-> batch']
    /\ twin' = ret'
    /\ UNCHANGED <<training, ue_training, task_training, eval_task,
                   inject_personalization, emb_weight, twin_weight>>

\* the collate step of the data loader: a list of encoded sequences to a dict of lists
Collate(encs, with_labels) ==
    [k \in (DOMAIN encs[1]) \ (IF with_labels THEN {} ELSE {"labels"}) |->
        [i \in 1..Len(encs) |-> encs[i][k]]]

BatchesOf(encodings) ==
    {Collate(encs, l) : encs \in UNION {[1..n -> encodings] : n \in 1..MaxBatch},
                        l \in BOOLEAN}

RowOf(k, target, hist) == [user_id |-> UserIdOf(k), target_item |-> target, history |-> hist]

\* batches whose texts vary (different lengths, truncation, a literal "<pad>")
PadEncodings ==
    {EncodePair(TaskCall("t1", RowOf(1, t, h))[1], RowOf(1, t, h)) :
        t \in {"a", "p"}, h \in {"a", "p"}}
PadBatches == BatchesOf(PadEncodings)

NextPad ==
    \/ \E mode \in BOOLEAN : train(mode)
    \/ eval
    \/ \E b \in PadBatches : prepare_input(b)

----------------------------------------------------------------------------
(* Properties of mode switching and tokenize *)

\* C1: every train(mode) / eval() call leaves the model's training flag and the
\* Task layer's mode both equal to the requested mode, and once the two agree
\* no call changes one of them without the other.
C1_ModeSync ==
    [][ /\ ret'.op \in {"train", "eval"} =>
              (training' = ret'.out /\ task_training' = ret'.out)
        /\ (training = task_training) => (training' = task_training') ]_vars

\* the model and the Task layer are both in eval mode after a switching call
C1_Witness ==
    /\ ret.op \in {"train", "eval"}
    /\ ~training
    /\ ~task_training

Tokenized == ret.op = "tokenize" /\ ret.error # "AssertionError"

\* C3 as stated: in training mode the invoked task is one of training_tasks;
\* otherwise it is eval_task, and with eval_task unset tokenize fails with the
\* configuration error (the ValueError valid_step raises for an unset eval_task).
C3_Original ==
    Tokenized =>
        IF training
        THEN \E c \in 1..Len(training_tasks) : ret.task = training_tasks[c]
        ELSE /\ ret.task = eval_task
             /\ eval_task = None => ret.error = "ValueError"

\* what tokenize does in its place: the same selection, and with eval_task
\* unset the call of None raises a TypeError before anything is tokenized
C3_TaskSelection ==
    Tokenized =>
        IF training
        THEN \E c \in 1..Len(training_tasks) : ret.task = training_tasks[c]
        ELSE /\ ret.task = eval_task
             /\ eval_task = None => (ret.error = "TypeError" /\ ret.encodings = <<>>)

InitPad ==
    /\ InitTok
    /\ task_training = TRUE
    /\ eval_task = None

SpecPad == InitPad /\ [][NextPad]_vars

\* the positions of a row that do not hold the pad id
StripPad(row) == SelectSeq(row, LAMBDA x : x # pad_token_id)

HasPad(seq) == \E i \in 1..Len(seq) : seq[i] = pad_token_id

PreparedWithLabels == ret.op = "prepare_input" /\ "labels" \in DOMAIN ret.arg

\* C4 as stated: the returned labels hold no pad id, every padding position
\* holds -100 and every position of a real label token keeps its token id.
C4_Original ==
    PreparedWithLabels =>
        \A b \in 1..Len(ret.out.labels) : \A i \in 1..Len(ret.out.labels[b]) :
            /\ ret.out.labels[b][i] # pad_token_id
            /\ i > Len(ret.arg.labels[b]) => ret.out.labels[b][i] = ignore_index
            /\ i <= Len(ret.arg.labels[b]) => ret.out.labels[b][i] = ret.arg.labels[b][i]

\* C4 amended: the returned labels hold no pad id, every padding position holds
\* -100, every real label token other than the pad id keeps its token id, and a
\* real label token equal to the pad id is overwritten by -100 as well.
C4_LabelsMasked ==
    PreparedWithLabels =>
        /\ Len(ret.out.labels) = Len(ret.arg.labels)
        /\ \A b \in 1..Len(ret.out.labels) :
              /\ Len(ret.out.labels[b]) = MaxLen(ret.arg.labels)
              /\ \A i \in 1..Len(ret.out.labels[b]) :
                    /\ ret.out.labels[b][i] # pad_token_id
                    /\ i > Len(ret.arg.labels[b]) => ret.out.labels[b][i] = ignore_index
                    /\ i <= Len(ret.arg.labels[b]) =>
                          ret.out.labels[b][i] =
                              IF ret.arg.labels[b][i] = pad_token_id
                              THEN ignore_index ELSE ret.arg.labels[b][i]

\* a batch whose label rows differ in length (so one is padded) and one of
\* whose real label tokens is the pad id
C4_Witness ==
    /\ PreparedWithLabels
    /\ \E b \in 1..Len(ret.arg.labels) : Len(ret.arg.labels[b]) < MaxLen(ret.arg.labels)
    /\ \E b \in 1..Len(ret.arg.labels) : HasPad(ret.arg.labels[b])

Prepared == ret.op = "prepare_input"

\* C9 as stated: stripping the pad positions of every padded input_ids row
\* gives back the sample's unpadded sequence, and every row has the length of
\* the longest sequence of the batch.
C9_Original ==
    Prepared =>
        \A b \in 1..Len(ret.arg.input_ids) :
            /\ StripPad(ret.out.input_ids[b]) = ret.arg.input_ids[b]
            /\ Len(ret.out.input_ids[b]) = MaxLen(ret.arg.input_ids)

\* C9 amended: every row has the length of the longest sequence, starts with the
\* sample's unpadded sequence and holds the pad id after it; stripping the pad
\* positions gives the sequence back for every sample whose tokens are not pad.
C9_PadRoundTrip ==
    Prepared =>
        /\ Len(ret.out.input_ids) = Len(ret.arg.input_ids)
        /\ \A b \in 1..Len(ret.arg.input_ids) :
              LET row == ret.out.input_ids[b]
                  orig == ret.arg.input_ids[b]
              IN /\ Len(row) = MaxLen(ret.arg.input_ids)
                 /\ SubSeq(row, 1, Len(orig)) = orig
                 /\ \A i \in (Len(orig) + 1)..Len(row) : row[i] = pad_token_id
                 /\ ~HasPad(orig) => StripPad(row) = orig

\* a batch with a padded row, and a sample whose text holds a literal "<pad>"
C9_Witness ==
    /\ Prepared
    /\ \E b \in 1..Len(ret.arg.input_ids) :
           /\ Len(ret.arg.input_ids[b]) < MaxLen(ret.arg.input_ids)
           /\ ~HasPad(ret.arg.input_ids[b])
    /\ \E b \in 1..Len(ret.arg.input_ids) : HasPad(ret.arg.input_ids[b])

----------------------------------------------------------------------------
(* UserEmbeds and the personalization injection *)

\* nn.functional.leaky_relu(x), default negative slope
leaky_relu(x) == IF x >= 0 THEN x ELSE -((-x) \div negative_slope_inv)

\* a kept entry of dropout is scaled by 1 / (1 - p)
DropoutScale(x) == (x * 100) \div (100 - dropout_p)

DropMasks == [1..d_model -> BOOLEAN]
NoDrop == [d \in 1..d_model |-> FALSE]

\* UserEmbeds with a dropout that draws every entry on its own: entry (b, d) is
\* zeroed when drop[d] holds for odd b, and when it does not for even b
UserEmbeds_elementwise(weight, is_training, user_idx, drop) ==
    IF \E b \in 1..Len(user_idx) : user_idx[b] \notin DOMAIN weight
    THEN [error |-> "IndexError", rows |-> user_idx, out |-> None]
    ELSE
    [error |-> "none", rows |-> user_idx,
     out |-> [b \in 1..Len(user_idx) |->
                [d \in 1..d_model |->
                    leaky_relu(IF ~is_training THEN weight[user_idx[b]][d]
                               ELSE IF drop[d] = (b % 2 = 1) THEN 0
                               ELSE DropoutScale(weight[user_idx[b]][d]))]]]

\* UserEmbeds.__call__(user_idx) on table `weight`; drop[d] says whether
\* dropout1d draws channel d (an embedding dimension after the permute) as zeroed
UserEmbeds(weight, is_training, user_idx, drop) ==
    IF \E b \in 1..Len(user_idx) : user_idx[b] \notin DOMAIN weight
    THEN [error |-> "IndexError", rows |-> user_idx, out |-> None]
    ELSE
    LET x == [b \in 1..Len(user_idx) |-> weight[user_idx[b]]]
        permuted == [d \in 1..d_model |-> [b \in 1..Len(x) |-> x[b][d]]]
        dropped == [d \in 1..d_model |->
                       [b \in 1..Len(x) |->
                           IF ~is_training THEN permuted[d][b]
                           ELSE IF drop[d] THEN 0 ELSE DropoutScale(permuted[d][b])]]
        back == [b \in 1..Len(x) |-> [d \in 1..d_model |-> dropped[d][b]]]
    IN [error |-> "none", rows |-> user_idx,
        out |-> [b \in 1..Len(x) |-> [d \in 1..d_model |-> leaky_relu(back[b][d])]]]

\* self.shared(input_ids): the token embedding table of the pretrained model
Shared(input_ids) ==
    [b \in 1..Len(input_ids) |->
        [i \in 1..Len(input_ids[b]) |->
            [d \in 1..d_model |-> 1000 * input_ids[b][i] + d]]]

\* the injection without the shift of the 1-based user indices
InjectPersonalization_unshifted(weight, is_training, token_inputs_embeds, user_idxs, drop) ==
    LET ue == UserEmbeds(weight, is_training, user_idxs, drop)
    IN [error |-> ue.error, rows |-> ue.rows, user_embeds |-> ue.out,
        out |-> IF ue.error # "none" THEN None
                ELSE [b \in 1..Len(token_inputs_embeds) |->
                         [i \in 1..Len(token_inputs_embeds[b]) |->
                             [d \in 1..d_model |->
                                 token_inputs_embeds[b][i][d] + ue.out[b][d]]]]]

InjectPersonalization(weight, is_training, token_inputs_embeds, user_idxs, drop) ==
    LET ue == UserEmbeds(weight, is_training,
                         [b \in 1..Len(user_idxs) |-> user_idxs[b] - 1], drop)
    IN [error |-> ue.error, rows |-> ue.rows, user_embeds |-> ue.out,
        out |-> IF ue.error # "none" THEN None
                ELSE [b \in 1..Len(token_inputs_embeds) |->
                         [i \in 1..Len(token_inputs_embeds[b]) |->
                             [d \in 1..d_model |->
                                 token_inputs_embeds[b][i][d] + ue.out[b][d]]]]]

NoInjection == [error |-> "none", rows |-> <<>>, user_embeds |-> None, out |-> None]

----------------------------------------------------------------------------
(* The pretrained model as uninterpreted terms *)

\* self(inputs_embeds=, attention_mask=, labels=).loss
Forward(inputs_embeds, attention_mask, labels) ==
    [loss_of |-> inputs_embeds, mask |-> attention_mask, labels |-> labels]

\* self.generate(...): num_return_sequences beams per sample, sample by sample
Generate(inputs_embeds, attention_mask) ==
    [k \in 1..(Len(inputs_embeds) * num_return_sequences) |->
        [beam_of |-> inputs_embeds[((k - 1) \div num_return_sequences) + 1],
         mask |-> attention_mask[((k - 1) \div num_return_sequences) + 1],
         rank |-> (k - 1) % num_return_sequences]]

\* self.tokenizer.batch_decode(beam_outputs, skip_special_tokens=True)
BatchDecode(beam_outputs) ==
    [k \in 1..Len(beam_outputs) |-> [text_of |-> beam_outputs[k].beam_of,
                                      rank |-> beam_outputs[k].rank]]

\* a reshape that fills column by column
ReshapeColumnMajor(flat, rows, cols) ==
    [i \in 1..rows |-> [j \in 1..cols |-> flat[(j - 1) * rows + i]]]

\* np.array(flat).reshape((rows, cols))
Reshape(flat, rows, cols) ==
    [i \in 1..rows |-> [j \in 1..cols |-> flat[(i - 1) * cols + j]]]

----------------------------------------------------------------------------
(* train_step and valid_step *)

StepRet(op, error, b, after, inj, forward_ran, generated_sents, out) ==
    [op |-> op, error |-> error, arg |-> b, batch |-> after,
     ue_called |-> inj.rows # <<>>, ue_error |-> inj.error, ue_rows |-> inj.rows,
     user_embeds |-> inj.user_embeds,
     forward_ran |-> forward_ran, generate_ran |-> generated_sents # <<>>,
     generated_sents |-> generated_sents, out |-> out]

\* lines 169-170
TrainInjection(weight, b, token_embeds, drop) ==
    IF "train" \in inject_personalization
    THEN InjectPersonalization(weight, ue_training, token_embeds, b.user_idx, drop)
    ELSE NoInjection

train_step_result(weight, b, drop) ==
    LET token_embeds == Shared(b.input_ids)
        inj == TrainInjection(weight, b, token_embeds, drop)
        inputs_embeds == IF inj.rows # <<>> THEN inj.out ELSE token_embeds
    IN  IF inj.error # "none"
        THEN StepRet("train_step", inj.error, b, b, inj, FALSE, <<>>, None)
        ELSE IF "labels" \notin DOMAIN b
        THEN StepRet("train_step", "KeyError", b, b, inj, FALSE, <<>>, None)
        ELSE StepRet("train_step", "none", b, b, inj, TRUE, <<>>,
                     Forward(inputs_embeds, b.attention_mask, b.labels).loss_of)

\* the injection of valid_step guarded by the flag of the training phase
EvalInjection_train_flag(weight, b, token_embeds, drop) ==
    IF "train" \in inject_personalization
    THEN InjectPersonalization(weight, ue_training, token_embeds, b.user_idx, drop)
    ELSE NoInjection

\* lines 194-195
EvalInjection(weight, b, token_embeds, drop) ==
    IF "eval" \in inject_personalization
    THEN InjectPersonalization(weight, ue_training, token_embeds, b.user_idx, drop)
    ELSE NoInjection

\* lines 185-223: valid_step once eval_task is known to be set
valid_step_body(weight, b, drop) ==
    IF "target_item" \notin DOMAIN b
    THEN StepRet("valid_step", "KeyError", b, b, NoInjection, FALSE, <<>>, None)
    ELSE
    LET target_text == b.target_item
        popped == [k \in (DOMAIN b) \ {"target_item"} |-> b[k]]
        token_embeds == Shared(popped.input_ids)
        inj == EvalInjection(weight, popped, token_embeds, drop)
        inputs_embeds == IF inj.rows # <<>> THEN inj.out ELSE token_embeds
    IN  IF inj.error # "none"
        THEN StepRet("valid_step", inj.error, b, popped, inj, FALSE, <<>>, None)
        ELSE IF "labels" \notin DOMAIN popped
        THEN StepRet("valid_step", "KeyError", b, popped, inj, FALSE, <<>>, None)
        ELSE
        LET output == Forward(inputs_embeds, popped.attention_mask, popped.labels)
            beam_outputs == Generate(inputs_embeds, popped.attention_mask)
            generated_sents == BatchDecode(beam_outputs)
            mapped_predictions == Reshape(generated_sents, Len(target_text),
                                          num_return_sequences)
            val_loss == output.loss_of
        IN StepRet("valid_step", "none", b, popped, inj, TRUE, generated_sents,
                   <<mapped_predictions, target_text, val_loss>>)

\* valid_step with batch.pop("target_item") moved in front of the eval_task check
valid_step_pop_first(weight, b, drop) ==
    IF eval_task = None
    THEN StepRet("valid_step", "ValueError", b,
                 [k \in (DOMAIN b) \ {"target_item"} |-> b[k]],
                 NoInjection, FALSE, <<>>, None)
    ELSE valid_step_body(weight, b, drop)

valid_step_result(weight, b, drop) ==
    IF eval_task = None
    THEN StepRet("valid_step", "ValueError", b, b, NoInjection, FALSE, <<>>, None)
    ELSE valid_step_body(weight, b, drop)

\* the draws dropout can make in this call
Draws == IF ue_training THEN DropMasks ELSE {NoDrop}

\* the same batch with other user indices, for the run on the twin
TwinBatch(b) == [b EXCEPT !.user_idx = [i \in 1..Len(b.user_idx) |-> 1]]

train_step ==
    /\ batch # <<>>
    /\ \E drop \in Draws :
          /\ ret' = train_step_result(emb_weight, batch, drop)
          /\ twin' = train_step_result(twin_weight, TwinBatch(batch), drop)
    /\ UNCHANGED <<training, ue_training, task_training, eval_task,
                   inject_personalization, emb_weight, twin_weight, batch>>

valid_step ==
    /\ batch # <<>>
    /\ \E drop \in Draws :
          /\ ret' = valid_step_result(emb_weight, batch, drop)
          /\ twin' = valid_step_result(twin_weight, TwinBatch(batch), drop)
    /\ batch' = ret'.batch
    /\ UNCHANGED <<training, ue_training, task_training, eval_task,
                   inject_personalization, emb_weight, twin_weight>>

StepRow(k) == RowOf(k, IF k % 2 = 0 THEN "a" ELSE "b", "a")

\* batches of users 0, 1, n_users and n_users + 1, in non-decreasing order
StepEncodings ==
    {EncodePair(TaskCall("e1", StepRow(k))[1], StepRow(k)) :
        k \in {0, 1, n_users, n_users + 1}}
StepBatches ==
    {b \in BatchesOf(StepEncodings) :
        \A i \in 1..(Len(b.user_idx) - 1) : b.user_idx[i] <= b.user_idx[i + 1]}

Next ==
    \/ \E mode \in BOOLEAN : train(mode)
    \/ eval
    \/ \E task \in {"e1", None} : set_eval_task(task)
    \/ \E b \in StepBatches : prepare_input(b)
    \/ train_step
    \/ valid_step

InitStep ==
    /\ Init
    /\ task_training = TRUE
    /\ eval_task \in {"e1", None}
    /\ emb_weight = EmbTable(1)
    /\ twin_weight = EmbTable(2)

Spec == InitStep /\ [][Next]_vars

----------------------------------------------------------------------------
(* Properties of the steps *)

\* C2: valid_step fails with the configuration error exactly when eval_task is
\* unset, and then before anything else: the batch is as it was passed and
\* neither the forward pass, the generation nor the user embedding has run.
C2_ConfigError ==
    ret.op = "valid_step" =>
        /\ (ret.error = "ValueError") <=> (eval_task = None)
        /\ ret.error = "ValueError" =>
              /\ batch = ret.arg
              /\ ~ret.forward_ran
              /\ ~ret.generate_ran
              /\ ~ret.ue_called

\* valid_step has failed for want of an eval_task on a batch holding target_item
C2_Witness ==
    /\ ret.op = "valid_step"
    /\ ret.error = "ValueError"
    /\ "target_item" \in DOMAIN batch

\* C6: for a batch of N samples valid_step returns N rows of 10 predictions,
\* row i holding entries 10*i .. 10*i+9 (0-based) of the flat generated list in
\* order, and the N target items it removed from the batch, in their order.
C6_PredictionGroups ==
    (ret.op = "valid_step" /\ ret.error = "none") =>
        LET N == Len(ret.arg.input_ids)
        IN /\ Len(ret.generated_sents) = N * num_return_sequences
           /\ Len(ret.out[1]) = N
           /\ \A i \in 1..N :
                 /\ Len(ret.out[1][i]) = 10
                 /\ \A j \in 1..10 :
                       ret.out[1][i][j] = ret.generated_sents[10 * (i - 1) + j]
           /\ ret.out[2] = ret.arg.target_item
           /\ Len(ret.out[2]) = N
           /\ "target_item" \notin DOMAIN batch

\* valid_step has returned for a batch of two samples with different targets
C6_Witness ==
    /\ ret.op = "valid_step" /\ ret.error = "none"
    /\ Len(ret.out[2]) >= 2
    /\ ret.out[2][1] # ret.out[2][2]
    /\ ret.out[1][1] # ret.out[1][2]

\* C7: with "eval" not in the personalization flag valid_step does not call the
\* user embedding, and its outcome equals that of the same call on a model that
\* differs only in the UserEmbeds parameters (and in user_idx); train_step calls
\* the user embedding if and only if "train" is in the flag.
C7_NoInterference ==
    /\ (ret.op = "valid_step" /\ "eval" \notin inject_personalization) =>
          /\ ~ret.ue_called
          /\ ret.error = twin.error
          /\ ret.out = twin.out
    /\ ret.op = "train_step" => (ret.ue_called <=> "train" \in inject_personalization)

\* valid_step has returned predictions with injection enabled for training
\* only, on a model whose twin has another table and other user indices
C7_Witness ==
    /\ ret.op = "valid_step" /\ ret.error = "none"
    /\ inject_personalization = {"train"}
    /\ emb_weight # twin_weight
    /\ ret.arg.user_idx # twin.arg.user_idx

Injected == ret.op \in {"train_step", "valid_step"} /\ ret.ue_called

\* C8 as stated: the injection looks up row (user index - 1), and a user index
\* equal to n_users is out of bounds and fails.
C8_Original ==
    Injected =>
        /\ \A b \in 1..Len(ret.ue_rows) : ret.ue_rows[b] = ret.arg.user_idx[b] - 1
        /\ (\E b \in 1..Len(ret.arg.user_idx) : ret.arg.user_idx[b] = n_users)
              => ret.error = "IndexError"

\* C8 amended: the injection looks up row (user index - 1), so user index 1
\* reads row 0 and user index n_users reads the last row, n_users - 1; it fails
\* exactly when some user index of the batch lies outside 1..n_users.
C8_RowShift ==
    Injected =>
        /\ \A b \in 1..Len(ret.ue_rows) : ret.ue_rows[b] = ret.arg.user_idx[b] - 1
        /\ (ret.error = "IndexError") <=>
              (\E b \in 1..Len(ret.arg.user_idx) : ret.arg.user_idx[b] \notin 1..n_users)
        /\ (ret.ue_error = "none" /\ ~ue_training) =>
              \A b \in 1..Len(ret.arg.user_idx) : \A d \in 1..d_model :
                  ret.user_embeds[b][d] = leaky_relu(emb_weight[ret.arg.user_idx[b] - 1][d])

\* an injection has succeeded on a batch holding user 1 and user n_users
C8_Witness ==
    /\ Injected
    /\ ret.ue_error = "none"
    /\ \E b \in 1..Len(ret.arg.user_idx) : ret.arg.user_idx[b] = 1
    /\ \E b \in 1..Len(ret.arg.user_idx) : ret.arg.user_idx[b] = n_users

\* C10: the output of UserEmbeds has shape (B, d_model); in training mode each
\* dimension is zeroed for every sample of the batch or kept for every sample;
\* out of training mode nothing is zeroed and the output is leaky_relu of the
\* looked-up rows.
C10_Dropout ==
    (Injected /\ ret.ue_error = "none") =>
        LET out == ret.user_embeds
            B == Len(ret.arg.user_idx)
        IN /\ Len(out) = B
           /\ \A b \in 1..B : DOMAIN out[b] = 1..d_model
           /\ IF ue_training
              THEN \A d \in 1..d_model :
                       \/ \A b \in 1..B : out[b][d] = 0
                       \/ \A b \in 1..B : out[b][d] # 0
              ELSE \A b \in 1..B : \A d \in 1..d_model :
                       out[b][d] = leaky_relu(emb_weight[ret.ue_rows[b]][d])

\* in training mode, a batch of two users with one dimension zeroed and one kept
C10_Witness ==
    /\ Injected /\ ret.ue_error = "none"
    /\ ue_training
    /\ Len(ret.user_embeds) >= 2
    /\ \E d \in 1..d_model : \A b \in 1..Len(ret.user_embeds) : ret.user_embeds[b][d] = 0
    /\ \E d \in 1..d_model : \A b \in 1..Len(ret.user_embeds) : ret.user_embeds[b][d] # 0

====
